---- MODULE Spec2Model ----
(***************************************************************************)
(* Best-trade selection of src/hooks/useBestV3Trade.ts.                    *)
(*                                                                         *)
(* The two hooks useBestV3TradeExactIn and useBestV3TradeExactOut are pure *)
(* functions of their arguments, the route list of useAllV3Routes, the     *)
(* per-route quotes of useSingleContractMultipleData and three constants   *)
(* of constants/index.  The state is that environment, the arguments of    *)
(* the last hook call and what it returned.                                *)
(*                                                                         *)
(* A route is modelled by its index in `routes` (the identity of the       *)
(* object routes[i]) and its tokenPath.length; an amount (BigNumber,       *)
(* JSBI) by an integer; a Percent by its numerator and denominator.        *)
(***************************************************************************)
EXTENDS Integers, Sequences, FiniteSets

VARIABLES
    routes,            \* useAllV3Routes().routes: routes[i] = routes[i].tokenPath.length
    routesLoading,     \* useAllV3Routes().loading
    quotesResults,     \* useSingleContractMultipleData(...): [result, loading, valid, syncing]
    BETTER_TRADE_LESS_HOPS_THRESHOLD,  \* the configured Percent
    hook,              \* the hook called last, "none" before the first call
    amountSpecified,   \* its amountIn (exact in) or amountOut (exact out) argument
    otherCurrency,     \* its currencyOut (exact in) or currencyIn (exact out) argument
    state,             \* the V3TradeState it returned
    trade              \* the trade it returned

vars == <<routes, routesLoading, quotesResults, BETTER_TRADE_LESS_HOPS_THRESHOLD,
          hook, amountSpecified, otherCurrency, state, trade>>

----------------------------------------------------------------------------
(* JavaScript's null and undefined, for integer-valued fields. *)
null == -1
undefined == -2

(* new Percent(numerator, denominator) of @uniswap/sdk-core: a Fraction. *)
Percent(numerator, denominator) == [numerator |-> numerator, denominator |-> denominator]

(* Fraction.subtract: same denominator, else cross-multiplied; never reduced. *)
subtract(a, b) ==
    IF a.denominator = b.denominator
    THEN Percent(a.numerator - b.numerator, a.denominator)
    ELSE Percent(a.numerator * b.denominator - b.numerator * a.denominator,
                 a.denominator * b.denominator)

(* Fraction.lessThan and Fraction.greaterThan compare by cross-multiplying: *)
(*   a.numerator * b.denominator  <  b.numerator * a.denominator            *)
(* JSBI integers are unbounded and TLC's are 32 bits wide, so the common    *)
(* factor of the two (positive) denominators is cancelled from both sides   *)
(* first, which leaves the comparison unchanged.                            *)
RECURSIVE GCD(_, _)
GCD(m, n) == IF n = 0 THEN m ELSE GCD(n, m % n)

lessThan(a, b) ==
    LET g == GCD(a.denominator, b.denominator)
    IN  a.numerator * (b.denominator \div g) < b.numerator * (a.denominator \div g)

greaterThan(a, b) ==
    LET g == GCD(a.denominator, b.denominator)
    IN  a.numerator * (b.denominator \div g) > b.numerator * (a.denominator \div g)

(* constants/index *)
BIPS_BASE == 10000
ONE_BIPS == Percent(1, BIPS_BASE)
ONE_HUNDRED_PERCENT == Percent(BIPS_BASE, BIPS_BASE)

----------------------------------------------------------------------------
(* Bounds of the model. *)
MaxRoutes == 3
MaxBatch == 2

(* tokenPath.length of a route: 2 is one hop, 4 is three hops. *)
PathLengths == {2, 4}
(* Quoted amounts; undefined is a quote without result. *)
Amounts == {990, 999, 1000, 1001, 1100}
StatusAmounts == {990, 1000}
(* Thresholds in bips: none, the 50 bips of the examples, the largest below *)
(* 100% less one bip, and 100.5%.                                           *)
ThresholdBips == {0, 50, 9999, 10050}
(* The caller's fixed-side amount and other-side currency. *)
AmountArgs == {undefined, 500}
CurrencyArgs == {"undefined", "Token", "ETHER"}

(* enum V3TradeState *)
V3TradeState == {"LOADING", "INVALID", "NO_ROUTE_FOUND", "VALID", "SYNCING"}

Quote(result, loading, valid, syncing) ==
    [result |-> result, loading |-> loading, valid |-> valid, syncing |-> syncing]

----------------------------------------------------------------------------
(* trade: null *)
nullTrade == [route |-> 0, tradeType |-> "null", inputAmount |-> null,
              outputAmount |-> [wrapper |-> "null", raw |-> null]]

(* { bestRoute: null, amountOut: null }; the exact-out fold names the      *)
(* second field amountIn.                                                   *)
initialBest == [bestRoute |-> 0, amount |-> null]

(* Mutants of someLoading and someSyncing: every in place of some. *)
someLoading_every(quotes) == \A i \in 1..Len(quotes) : quotes[i].loading

someSyncing_every(quotes) == \A i \in 1..Len(quotes) : quotes[i].syncing

(* quotesResults.some(({ loading }) => loading) *)
someLoading(quotes) == \E i \in 1..Len(quotes) : quotes[i].loading

(* quotesResults.some(({ syncing }) => syncing) *)
someSyncing(quotes) == \E i \in 1..Len(quotes) : quotes[i].syncing

(* quotesResults.some(({ valid }) => !valid) *)
someInvalid(quotes) == \E i \in 1..Len(quotes) : ~quotes[i].valid

(* Mutants of belowThresholdExactIn: the ratio's arguments exchanged; one   *)
(* hundred percent subtracted in place of one bip.                          *)
belowThresholdExactIn_swapped(currentBestAmountOut, resultAmountOut, threshold) ==
    lessThan(subtract(Percent(resultAmountOut, currentBestAmountOut), ONE_BIPS), threshold)

belowThresholdExactIn_minusOne(currentBestAmountOut, resultAmountOut, threshold) ==
    lessThan(subtract(Percent(currentBestAmountOut, resultAmountOut), ONE_HUNDRED_PERCENT),
             threshold)

(* amountRatio.subtract(ONE_BIPS).lessThan(BETTER_TRADE_LESS_HOPS_THRESHOLD) *)
(* with amountRatio = new Percent(currentBest.amountOut, result.amountOut).  *)
belowThresholdExactIn(currentBestAmountOut, resultAmountOut, threshold) ==
    lessThan(subtract(Percent(currentBestAmountOut, resultAmountOut), ONE_BIPS), threshold)

(* Mutant of belowThresholdExactOut: the ratio's arguments exchanged. *)
belowThresholdExactOut_swapped(currentBestAmountIn, resultAmountIn, threshold) ==
    greaterThan(subtract(ONE_HUNDRED_PERCENT, Percent(currentBestAmountIn, resultAmountIn)),
                threshold)

(* ONE_HUNDRED_PERCENT.subtract(amountRatio).greaterThan(THRESHOLD) with   *)
(* amountRatio = new Percent(result.amountIn, currentBest.amountIn).        *)
belowThresholdExactOut(currentBestAmountIn, resultAmountIn, threshold) ==
    greaterThan(subtract(ONE_HUNDRED_PERCENT, Percent(resultAmountIn, currentBestAmountIn)),
                threshold)

(* The hop-count branch of the exact-in callback's condition. *)
lessHopsExactIn(currentBest, quote, i, rs, threshold) ==
    LET hopsCurrentBest == IF currentBest.bestRoute = 0 THEN 0 ELSE rs[currentBest.bestRoute]
        hopsResult == rs[i]
        resultBetterThanCurrent == currentBest.amount < quote.result
    IN  /\ ~resultBetterThanCurrent
        /\ hopsCurrentBest # 0
        /\ belowThresholdExactIn(currentBest.amount, quote.result, threshold)
        /\ hopsResult < hopsCurrentBest

(* Mutant of reduceExactIn: a quote without result discards the best so far. *)
reduceExactIn_absentFatal(currentBest, quote, i, rs, threshold) ==
    IF quote.result = undefined THEN initialBest
    ELSE IF currentBest.amount = null
    THEN [bestRoute |-> i, amount |-> quote.result]
    ELSE IF \/ lessHopsExactIn(currentBest, quote, i, rs, threshold)
            \/ currentBest.amount < quote.result
    THEN [bestRoute |-> i, amount |-> quote.result]
    ELSE currentBest

(* The callback of quotesResults.reduce in useBestV3TradeExactIn. *)
reduceExactIn(currentBest, quote, i, rs, threshold) ==
    IF quote.result = undefined THEN currentBest
    ELSE IF currentBest.amount = null
    THEN [bestRoute |-> i, amount |-> quote.result]
    ELSE IF \/ lessHopsExactIn(currentBest, quote, i, rs, threshold)
            \/ currentBest.amount < quote.result
    THEN [bestRoute |-> i, amount |-> quote.result]
    ELSE currentBest

(* The hop-count branch of the exact-out callback's condition. *)
lessHopsExactOut(currentBest, quote, i, rs, threshold) ==
    LET hopsCurrentBest == IF currentBest.bestRoute = 0 THEN 0 ELSE rs[currentBest.bestRoute]
        hopsResult == rs[i]
        resultBetterThanCurrent == currentBest.amount > quote.result
    IN  /\ hopsCurrentBest # 0
        /\ ~resultBetterThanCurrent
        /\ belowThresholdExactOut(currentBest.amount, quote.result, threshold)
        /\ hopsResult < hopsCurrentBest

(* Mutant of reduceExactOut: a better quote replaces the amount, not the route. *)
reduceExactOut_keepsRoute(currentBest, quote, i, rs, threshold) ==
    IF quote.result = undefined THEN currentBest
    ELSE IF currentBest.amount = null
    THEN [bestRoute |-> i, amount |-> quote.result]
    ELSE IF \/ lessHopsExactOut(currentBest, quote, i, rs, threshold)
            \/ currentBest.amount > quote.result
    THEN [bestRoute |-> currentBest.bestRoute, amount |-> quote.result]
    ELSE currentBest

(* The callback of quotesResults.reduce in useBestV3TradeExactOut. *)
reduceExactOut(currentBest, quote, i, rs, threshold) ==
    IF quote.result = undefined THEN currentBest
    ELSE IF currentBest.amount = null
    THEN [bestRoute |-> i, amount |-> quote.result]
    ELSE IF \/ lessHopsExactOut(currentBest, quote, i, rs, threshold)
            \/ currentBest.amount > quote.result
    THEN [bestRoute |-> i, amount |-> quote.result]
    ELSE currentBest

(* quotesResults.reduce(callback, initialBest) over the first n entries. *)
RECURSIVE bestExactIn(_, _, _, _)
bestExactIn(quotes, rs, threshold, n) ==
    IF n = 0 THEN initialBest
    ELSE reduceExactIn(bestExactIn(quotes, rs, threshold, n - 1), quotes[n], n, rs, threshold)

RECURSIVE bestExactOut(_, _, _, _)
bestExactOut(quotes, rs, threshold, n) ==
    IF n = 0 THEN initialBest
    ELSE reduceExactOut(bestExactOut(quotes, rs, threshold, n - 1), quotes[n], n, rs, threshold)

(* !amountIn || !currencyOut *)
invalidExactIn(amountIn, currencyOut) ==
    amountIn = undefined \/ currencyOut = "undefined"

(* Mutant of invalidExactOut: the quotes' valid flags are not read. *)
invalidExactOut_noValid(amountOut, currencyIn, quotes) ==
    amountOut = undefined \/ currencyIn = "undefined"

(* !amountOut || !currencyIn || quotesResults.some(({ valid }) => !valid) *)
invalidExactOut(amountOut, currencyIn, quotes) ==
    amountOut = undefined \/ currencyIn = "undefined" \/ someInvalid(quotes)

(* routesLoading || quotesResults.some(({ loading }) => loading) *)
loadingQuotes(rsLoading, quotes) == rsLoading \/ someLoading(quotes)

(* currency instanceof Token ? new TokenAmount(currency, amount.toString()) *)
(*                           : CurrencyAmount.ether(amount.toString())      *)
(* The decimal string of a non-negative integer parses back to it.          *)
wrapAmount(currency, amount) ==
    [wrapper |-> IF currency = "Token" THEN "TokenAmount" ELSE "CurrencyAmount.ether",
     raw |-> amount]

(* The value useBestV3TradeExactIn returns. *)
useBestV3TradeExactIn(amountIn, currencyOut, rs, rsLoading, quotes, threshold) ==
    IF invalidExactIn(amountIn, currencyOut)
    THEN [state |-> "INVALID", trade |-> nullTrade]
    ELSE IF loadingQuotes(rsLoading, quotes)
    THEN [state |-> "LOADING", trade |-> nullTrade]
    ELSE LET best == bestExactIn(quotes, rs, threshold, Len(quotes))
         IN  IF best.bestRoute = 0 \/ best.amount = null
             THEN [state |-> "NO_ROUTE_FOUND", trade |-> nullTrade]
             ELSE [state |-> IF someSyncing(quotes) THEN "SYNCING" ELSE "VALID",
                   trade |-> [route |-> best.bestRoute,
                              tradeType |-> "EXACT_INPUT",
                              inputAmount |-> amountIn,
                              outputAmount |-> wrapAmount(currencyOut, best.amount)]]

(* The value useBestV3TradeExactOut returns. *)
useBestV3TradeExactOut(currencyIn, amountOut, rs, rsLoading, quotes, threshold) ==
    IF invalidExactOut(amountOut, currencyIn, quotes)
    THEN [state |-> "INVALID", trade |-> nullTrade]
    ELSE IF loadingQuotes(rsLoading, quotes)
    THEN [state |-> "LOADING", trade |-> nullTrade]
    ELSE LET best == bestExactOut(quotes, rs, threshold, Len(quotes))
         IN  IF best.bestRoute = 0 \/ best.amount = null
             THEN [state |-> "NO_ROUTE_FOUND", trade |-> nullTrade]
             ELSE [state |-> IF someSyncing(quotes) THEN "SYNCING" ELSE "VALID",
                   trade |-> [route |-> best.bestRoute,
                              tradeType |-> "EXACT_OUTPUT",
                              inputAmount |-> wrapAmount(currencyIn, best.amount),
                              outputAmount |-> amountOut]]

----------------------------------------------------------------------------
(* Before the call.  A hook holds no state across calls: a behaviour is one *)
(* call over one snapshot of the routes and quotes.                        *)
NotCalled ==
    /\ hook = "none"
    /\ amountSpecified = undefined
    /\ otherCurrency = "undefined"
    /\ state = "none"
    /\ trade = nullTrade

(* Settled quotes: every amount and hop count, every threshold. *)
Init ==
    /\ \E n \in 0..MaxRoutes :
          /\ routes \in [1..n -> PathLengths]
          /\ quotesResults \in [1..n -> {Quote(a, FALSE, TRUE, FALSE) :
                                            a \in Amounts \cup {undefined}}]
    /\ routesLoading = FALSE
    /\ BETTER_TRADE_LESS_HOPS_THRESHOLD \in {Percent(b, BIPS_BASE) : b \in ThresholdBips}
    /\ NotCalled

(* Every combination of the per-quote flags, at the threshold of 50 bips;  *)
(* route i has i hops.                                                      *)
InitStatus ==
    /\ \E n \in 0..MaxBatch :
          /\ routes = [i \in 1..n |-> i + 1]
          /\ quotesResults \in [1..n -> {Quote(a, l, v, s) :
                                            a \in StatusAmounts \cup {undefined},
                                            l \in BOOLEAN, v \in BOOLEAN, s \in BOOLEAN}]
    /\ routesLoading \in BOOLEAN
    /\ BETTER_TRADE_LESS_HOPS_THRESHOLD = Percent(50, BIPS_BASE)
    /\ NotCalled

CallExactIn ==
    \E amountIn \in AmountArgs, currencyOut \in CurrencyArgs :
        LET r == useBestV3TradeExactIn(amountIn, currencyOut, routes, routesLoading,
                                       quotesResults, BETTER_TRADE_LESS_HOPS_THRESHOLD)
        IN  /\ hook = "none"
            /\ hook' = "useBestV3TradeExactIn"
            /\ amountSpecified' = amountIn
            /\ otherCurrency' = currencyOut
            /\ state' = r.state
            /\ trade' = r.trade
            /\ UNCHANGED <<routes, routesLoading, quotesResults,
                           BETTER_TRADE_LESS_HOPS_THRESHOLD>>

CallExactOut ==
    \E currencyIn \in CurrencyArgs, amountOut \in AmountArgs :
        LET r == useBestV3TradeExactOut(currencyIn, amountOut, routes, routesLoading,
                                        quotesResults, BETTER_TRADE_LESS_HOPS_THRESHOLD)
        IN  /\ hook = "none"
            /\ hook' = "useBestV3TradeExactOut"
            /\ amountSpecified' = amountOut
            /\ otherCurrency' = currencyIn
            /\ state' = r.state
            /\ trade' = r.trade
            /\ UNCHANGED <<routes, routesLoading, quotesResults,
                           BETTER_TRADE_LESS_HOPS_THRESHOLD>>

Next == CallExactIn \/ CallExactOut

Spec == Init /\ [][Next]_vars

SpecStatus == InitStatus /\ [][Next]_vars

----------------------------------------------------------------------------
(* Vocabulary of the properties. *)
ExactIn == hook = "useBestV3TradeExactIn"
ExactOut == hook = "useBestV3TradeExactOut"
Called == ExactIn \/ ExactOut
InputsPresent == amountSpecified # undefined /\ otherCurrency # "undefined"
HasTrade == state \in {"VALID", "SYNCING"}
Present(i) == quotesResults[i].result # undefined
Indices == 1..Len(quotesResults)
AnyLoading == \E i \in Indices : quotesResults[i].loading = TRUE
AnySyncing == \E i \in Indices : quotesResults[i].syncing = TRUE
AnyInvalid == \E i \in Indices : quotesResults[i].valid = FALSE
Threshold == BETTER_TRADE_LESS_HOPS_THRESHOLD
ResultsAre(lengths, amounts) ==
    /\ routes = lengths
    /\ Len(quotesResults) = Len(amounts)
    /\ \A i \in 1..Len(amounts) : quotesResults[i].result = amounts[i]

(* The best after the first n quotes, in each direction. *)
BestIn(n) == bestExactIn(quotesResults, routes, Threshold, n)
BestOut(n) == bestExactOut(quotesResults, routes, Threshold, n)

(* difference / base < threshold *)
RelativeDifferenceWithin(difference, base, threshold) ==
    difference * threshold.denominator < threshold.numerator * base

(* The threshold is at most 9999/10000. *)
ThresholdBelowOneLessOneBip == ~greaterThan(Threshold, Percent(9999, BIPS_BASE))

(* C1 (as claimed): in the exact-in fold, a candidate that quotes no more   *)
(* than the best so far, over strictly fewer hops, with an output shortfall *)
(* within the threshold, replaces the best so far; so with 1000 over three  *)
(* hops, then 999 over one hop, at 50 bips, the one-hop route is selected.  *)
C1_LessHopsReplacesExactIn ==
    (ExactIn /\ InputsPresent) =>
        /\ \A i \in Indices :
              LET currentBest == BestIn(i - 1)
                  result == quotesResults[i].result
              IN  ( /\ currentBest.amount # null
                    /\ result # undefined
                    /\ result <= currentBest.amount
                    /\ routes[i] < routes[currentBest.bestRoute]
                    /\ RelativeDifferenceWithin(currentBest.amount - result,
                                                currentBest.amount, Threshold) )
                  => BestIn(i).bestRoute = i
        /\ ( ResultsAre(<<4, 2>>, <<1000, 999>>) /\ Threshold = Percent(50, BIPS_BASE) )
              => trade.route = 2

(* C2 (as claimed): in the exact-out fold, a candidate that needs no less   *)
(* input than the best so far, over strictly fewer hops, replaces it when   *)
(* the extra input is within the threshold (1001 against 1000 at 50 bips)   *)
(* and is rejected when it is not (1100 against 1000).                      *)
C2_LessHopsReplacesExactOut ==
    (ExactOut /\ InputsPresent) =>
        /\ \A i \in Indices :
            LET currentBest == BestOut(i - 1)
                result == quotesResults[i].result
            IN  ( /\ currentBest.amount # null
                  /\ result # undefined
                  /\ result >= currentBest.amount
                  /\ routes[i] < routes[currentBest.bestRoute] )
                => IF RelativeDifferenceWithin(result - currentBest.amount,
                                               currentBest.amount, Threshold)
                   THEN BestOut(i).bestRoute = i
                   ELSE BestOut(i) = currentBest
        /\ ( ResultsAre(<<4, 2>>, <<1000, 1001>>) /\ Threshold = Percent(50, BIPS_BASE) )
              => trade.route = 2
        /\ ( ResultsAre(<<4, 2>>, <<1000, 1100>>) /\ Threshold = Percent(50, BIPS_BASE) )
              => trade.route = 1

(* The exact-in call selected route b although a route a of the same hop   *)
(* count quotes strictly more.                                              *)
LesserOfEqualHopsSelected ==
    /\ ExactIn
    /\ HasTrade
    /\ \E a, b \in Indices :
          /\ Present(a) /\ Present(b)
          /\ routes[a] = routes[b]
          /\ quotesResults[a].result > quotesResults[b].result
          /\ trade.route = b

(* C3 (as claimed): for every threshold, of two routes with equal hop      *)
(* count the one quoting strictly less is never the exact-in winner.        *)
C3_MonotoneAnyThreshold == ~LesserOfEqualHopsSelected

(* C3 (amended): the same, for every threshold of at most 9999/10000. *)
C3_MonotonePreference == ThresholdBelowOneLessOneBip => ~LesserOfEqualHopsSelected

C3_Witness ==
    /\ ExactIn /\ HasTrade
    /\ Threshold = Percent(50, BIPS_BASE)
    /\ ResultsAre(<<4, 2, 4>>, <<1001, 999, 1000>>)
    /\ trade.route = 1

(* The lowest index of a present amount that no present amount beats. *)
FirstMaximum ==
    CHOOSE i \in Indices :
        /\ Present(i)
        /\ \A j \in Indices : Present(j) =>
              /\ quotesResults[j].result <= quotesResults[i].result
              /\ j < i => quotesResults[j].result < quotesResults[i].result

FirstMinimum ==
    CHOOSE i \in Indices :
        /\ Present(i)
        /\ \A j \in Indices : Present(j) =>
              /\ quotesResults[j].result >= quotesResults[i].result
              /\ j < i => quotesResults[j].result > quotesResults[i].result

AllValid(quotes) == [i \in 1..Len(quotes) |-> [quotes[i] EXCEPT !.valid = TRUE]]
NoneSyncing(quotes) == [i \in 1..Len(quotes) |-> [quotes[i] EXCEPT !.syncing = FALSE]]

(* What the called hook returns for the call's arguments over other quotes. *)
ReturnedOver(quotes) ==
    IF ExactIn
    THEN useBestV3TradeExactIn(amountSpecified, otherCurrency, routes, routesLoading,
                               quotes, Threshold)
    ELSE useBestV3TradeExactOut(otherCurrency, amountSpecified, routes, routesLoading,
                                quotes, Threshold)

(* The inputs pass the hook's INVALID test. *)
NotInvalid == InputsPresent /\ (ExactOut => ~AnyInvalid)

(* The amount the hook computed: the trade's output (exact in) or input. *)
ComputedAmount == IF ExactIn THEN trade.outputAmount.raw ELSE trade.inputAmount.raw

(* C4: a missing amount or currency makes either hook return INVALID and   *)
(* no trade, whatever the loading flags; exact-out also returns INVALID     *)
(* when a quote is not valid, even while loading; what exact-in returns     *)
(* does not change with the quotes' valid flags.                            *)
C4_InvalidPrecedence ==
    /\ (Called /\ ~InputsPresent) => (state = "INVALID" /\ trade = nullTrade)
    /\ (ExactOut /\ AnyInvalid) => (state = "INVALID" /\ trade = nullTrade)
    /\ ExactIn => [state |-> state, trade |-> trade] = ReturnedOver(AllValid(quotesResults))
    /\ (ExactIn /\ InputsPresent) => state # "INVALID"

C4_Witness ==
    /\ ExactOut /\ InputsPresent
    /\ AnyInvalid
    /\ routesLoading /\ AnyLoading
    /\ state = "INVALID"

(* C5 (as claimed): whenever a quote is loading or the routes are loading, *)
(* either hook returns LOADING and no trade.                                *)
C5_LoadingAlways ==
    (Called /\ (routesLoading \/ AnyLoading))
        => (state = "LOADING" /\ trade = nullTrade)

(* C5 (amended): whenever a quote is loading or the routes are loading,    *)
(* either hook returns no trade, and it returns LOADING when the amount and *)
(* currency are present and, for exact-out, every quote is valid.           *)
C5_LoadingPrecedence ==
    (Called /\ (routesLoading \/ AnyLoading)) =>
        /\ trade = nullTrade
        /\ NotInvalid => state = "LOADING"

C5_Witness ==
    /\ ExactIn /\ InputsPresent
    /\ ~routesLoading
    /\ Len(quotesResults) = 2
    /\ quotesResults[1].result = 1000 /\ ~quotesResults[1].loading
    /\ quotesResults[2].loading
    /\ state = "LOADING"

(* C6: with the inputs present and valid and nothing loading, either hook  *)
(* returns NO_ROUTE_FOUND exactly when no quote has a result.               *)
C6_NoRouteFound ==
    (Called /\ NotInvalid /\ ~routesLoading /\ ~AnyLoading)
        => (state = "NO_ROUTE_FOUND" <=> \A i \in Indices : ~Present(i))

C6_Witness ==
    /\ ExactIn /\ NotInvalid
    /\ Len(quotesResults) = 2
    /\ Present(1) /\ ~Present(2)
    /\ HasTrade
    /\ trade.route = 1

(* C7: when a hook returns a trade, the state is SYNCING exactly when some *)
(* quote is syncing, and the trade is the one returned with no quote       *)
(* syncing.                                                                 *)
C7_SyncingOrValid ==
    (Called /\ HasTrade) =>
        /\ state = "SYNCING" <=> AnySyncing
        /\ ReturnedOver(NoneSyncing(quotesResults)) = [state |-> "VALID", trade |-> trade]

C7_Witness ==
    /\ ExactOut
    /\ state = "SYNCING"
    /\ Len(quotesResults) = 2
    /\ ~Present(1) /\ quotesResults[1].syncing
    /\ ~quotesResults[2].syncing
    /\ trade.route = 2

(* C8: a hook returns a trade exactly with VALID or SYNCING; the trade's   *)
(* route is some routes[i] and its computed amount is the result of the     *)
(* quote at the same i.                                                     *)
C8_TradePresence ==
    Called =>
        /\ state \in V3TradeState
        /\ trade # nullTrade <=> HasTrade
        /\ HasTrade =>
              /\ trade.route \in Indices
              /\ Present(trade.route)
              /\ ComputedAmount = quotesResults[trade.route].result
              /\ trade.tradeType = IF ExactIn THEN "EXACT_INPUT" ELSE "EXACT_OUTPUT"

C8_Witness ==
    /\ ExactOut
    /\ state = "VALID"
    /\ Len(quotesResults) = 2
    /\ Present(1)
    /\ trade.route = 2
    /\ trade.inputAmount.raw = 990

====
